---- MODULE Spec2Model ----
(***************************************************************************)
(* Verification model of lean-ai-gtd (backend/app).                        *)
(*                                                                         *)
(*   SpecFocus   : the Focus-Task (pomodoro) store and its handlers         *)
(*                 (services/pomodoro_intelligence.py, routes/pomodoro.py,  *)
(*                 models/pomodoro_task.py).                                *)
(*                                                                         *)
(* A request handler is one action.  generate_pomodoro_tasks commits twice  *)
(* (clear_user_tasks commits, then _create_pomodoro_tasks commits), so it   *)
(* is two steps: the store state between the two commits is a state of the  *)
(* database.  Requests are served one at a time, so no other handler runs   *)
(* between the two steps.                                                   *)
(***************************************************************************)
EXTENDS Integers, Sequences, FiniteSets, TLC

VARIABLES
    records,    \* table records: id -> row
    pomodoro,   \* table pomodoro_tasks: id -> row
    nextId,     \* next autoincrement id of pomodoro_tasks
    gen,        \* position of the running generate_pomodoro_tasks request
    last        \* the last request served and its result

vars == <<records, pomodoro, nextId, gen, last>>

(***************************************************************************)
(* Bounds                                                                  *)
(***************************************************************************)
\* ids the pomodoro_tasks autoincrement sequence may issue in one run
MaxId == 2
\* entries in the pomodoro_tasks list of one completion response
MaxEntries == 6
\* ids the autoincrement sequence may issue in one run of SpecBatch
MaxBatchId == 6
\* ids the autoincrement sequence may issue in one run of SpecStart
MaxStartId == 3

Users == {"u1", "u2"}

(***************************************************************************)
(* Records the focus handlers read (Record rows; the focus handlers never   *)
(* write them).  u1 owns an active task record.  In FocusRecords u2 owns no *)
(* record, in BatchRecords u2 owns a completed note; either way             *)
(* _get_user_top_tasks is empty for u2.                                     *)
(***************************************************************************)
FocusRecords ==
    (11 :> [user_id |-> "u1", category |-> "task", status |-> "active",
            priority |-> "urgent", parent_id |-> 0, updated_at |-> "created"])

BatchRecords ==
    FocusRecords @@
    (12 :> [user_id |-> "u2", category |-> "note", status |-> "completed",
            priority |-> "low", parent_id |-> 0, updated_at |-> "created"])

(***************************************************************************)
(* PomodoroTask (models/pomodoro_task.py)                                  *)
(***************************************************************************)
\* PomodoroTask(...) after the INSERT applied the column defaults
PomodoroTask(user_id, priority_score, estimated_pomodoros, order_index) ==
    [user_id |-> user_id,
     priority_score |-> priority_score,
     estimated_pomodoros |-> estimated_pomodoros,
     order_index |-> order_index,
     status |-> "pending",
     started_at |-> "None",
     completed_at |-> "None",
     pomodoros_completed |-> 0,
     total_focus_time |-> 0]

\* start_pomodoro without its status test
start_pomodoro_any(t) ==
    <<TRUE, [t EXCEPT !.status = "active", !.started_at = "utcnow"]>>

\* each method returns <<return value, the row afterwards>>
start_pomodoro(t) ==
    IF t.status = "pending"
    THEN <<TRUE, [t EXCEPT !.status = "active", !.started_at = "utcnow"]>>
    ELSE <<FALSE, t>>

\* complete_pomodoro completing one unit late
complete_pomodoro_late(t, focus_minutes) ==
    IF t.status = "active"
    THEN LET u == [t EXCEPT !.pomodoros_completed = @ + 1,
                            !.total_focus_time = @ + focus_minutes]
         IN  IF u.pomodoros_completed > u.estimated_pomodoros
             THEN <<TRUE, [u EXCEPT !.status = "completed",
                                    !.completed_at = "utcnow"]>>
             ELSE <<TRUE, u>>
    ELSE <<FALSE, t>>

complete_pomodoro(t, focus_minutes) ==
    IF t.status = "active"
    THEN LET u == [t EXCEPT !.pomodoros_completed = @ + 1,
                            !.total_focus_time = @ + focus_minutes]
         IN  IF u.pomodoros_completed >= u.estimated_pomodoros
             THEN <<TRUE, [u EXCEPT !.status = "completed",
                                    !.completed_at = "utcnow"]>>
             ELSE <<TRUE, u>>
    ELSE <<FALSE, t>>

skip_task(t) == <<TRUE, [t EXCEPT !.status = "skipped"]>>

\* reset_task keeping the completion time
reset_task_keeps(t) ==
    <<TRUE, [t EXCEPT !.status = "pending",
                      !.started_at = "None",
                      !.pomodoros_completed = 0,
                      !.total_focus_time = 0]>>

reset_task(t) ==
    <<TRUE, [t EXCEPT !.status = "pending",
                      !.started_at = "None",
                      !.completed_at = "None",
                      !.pomodoros_completed = 0,
                      !.total_focus_time = 0]>>

\* default of complete_pomodoro's focus_minutes parameter
DefaultFocusMinutes == 25

\* rows of one user
UserTasks(store, user_id) == {i \in DOMAIN store : store[i].user_id = user_id}

\* PomodoroTask.query.filter_by(id=task_id, user_id=user_id).first():
\* the set holding the row's id, empty when no row matches
FindTask(store, task_id, user_id) ==
    {i \in DOMAIN store : i = task_id /\ store[i].user_id = user_id}

(***************************************************************************)
(* PomodoroIntelligenceService.update_task_status and its four routes      *)
(***************************************************************************)
\* status of the row the request addresses, "missing" when the lookup fails
PreStatus(store, task_id, user_id) ==
    IF FindTask(store, task_id, user_id) = {} THEN "missing"
    ELSE store[task_id].status

\* the model method the action string selects
ApplyAction(t, action) ==
    CASE action = "start"    -> start_pomodoro(t)
      [] action = "complete" -> complete_pomodoro(t, DefaultFocusMinutes)
      [] action = "skip"     -> skip_task(t)
      [] action = "reset"    -> reset_task(t)

\* returns [success, store]; the session is committed only on success
update_task_status(store, task_id, user_id, action) ==
    IF FindTask(store, task_id, user_id) = {}
    THEN [success |-> FALSE, store |-> store]
    ELSE LET r == ApplyAction(store[task_id], action)
         IN  IF r[1]
             THEN [success |-> TRUE, store |-> [store EXCEPT ![task_id] = r[2]]]
             ELSE [success |-> FALSE, store |-> store]

\* The last request served: the operation, whether it reported success, what it
\* met (the status of the row it addressed, "missing" for no such row; for
\* generate the kind of completion response), and the ids of the rows it
\* addressed or created.
Last(op, ok, pre, id) == [op |-> op, ok |-> ok, pre |-> pre, id |-> id]

\* no generate request is between its two commits
Idle == gen.pc # "cleared"

\* gen while no generate request is being served
GenIdle == [pc |-> "idle", user_id |-> "None", data |-> <<>>, prior |-> {},
            entries |-> 0]

\* one of the routes start / complete / skip / reset
TransitionRoute(user_id, task_id, action) ==
    /\ Idle
    /\ LET r == update_task_status(pomodoro, task_id, user_id, action)
       IN  /\ pomodoro' = r.store
           /\ last' = Last(action, r.success,
                            PreStatus(pomodoro, task_id, user_id),
                            FindTask(pomodoro, task_id, user_id))
    /\ gen' = GenIdle
    /\ UNCHANGED <<records, nextId>>

start_pomodoro_task(user_id, task_id) == TransitionRoute(user_id, task_id, "start")

\* the route reads focus_minutes from the request and does not pass it on
complete_pomodoro_task(user_id, task_id, focus_minutes) ==
    TransitionRoute(user_id, task_id, "complete")

skip_pomodoro_task(user_id, task_id) == TransitionRoute(user_id, task_id, "skip")

reset_pomodoro_task(user_id, task_id) == TransitionRoute(user_id, task_id, "reset")

\* store without the rows in ids
Without(store, ids) == [i \in DOMAIN store \ ids |-> store[i]]

\* route DELETE /tasks/<id>/delete
delete_pomodoro_task(user_id, task_id) ==
    /\ Idle
    /\ IF FindTask(pomodoro, task_id, user_id) = {}
       THEN /\ pomodoro' = pomodoro
            /\ last' = Last("delete", FALSE, "missing", {})
       ELSE /\ pomodoro' = Without(pomodoro, {task_id})
            /\ last' = Last("delete", TRUE, pomodoro[task_id].status, {task_id})
    /\ gen' = GenIdle
    /\ UNCHANGED <<records, nextId>>

(***************************************************************************)
(* PomodoroIntelligenceService.add_single_task_to_pomodoro                 *)
(***************************************************************************)
\* priority_scores.get(priority, 50)
calculate_priority_score(priority) ==
    CASE priority = "urgent" -> 90
      [] priority = "high"   -> 75
      [] priority = "medium" -> 50
      [] priority = "low"    -> 25
      [] OTHER               -> 50

\* Record.query.filter_by(id=record_id, user_id=user_id).first()
FindRecord(record_id, user_id) ==
    {i \in DOMAIN records : i = record_id /\ records[i].user_id = user_id}

\* what PomodoroTask.query.filter_by(user_id=user_id, status='active').first()
\* may return, as sets of at most one id: the query has no ORDER BY, so it is
\* any one active row of the user, and no row when there is none
ActiveFirst(store, user_id) ==
    LET active == {i \in UserTasks(store, user_id) : store[i].status = "active"}
    IN  IF active = {} THEN {{}} ELSE {{i} : i \in active}

\* step 3: skip the row the active-task query returned
SkipActive(store, active_task) ==
    [i \in DOMAIN store |->
        IF i \in active_task THEN skip_task(store[i])[2] ELSE store[i]]

\* step 6 left out: every row keeps its order_index
ShiftOthers_none(store, user_id, new_id) == store

\* step 6: order_index + 1 on every row of the user but the new one
ShiftOthers(store, user_id, new_id) ==
    [i \in DOMAIN store |->
        IF store[i].user_id = user_id /\ i # new_id
        THEN [store[i] EXCEPT !.order_index = @ + 1]
        ELSE store[i]]

\* steps 3-6 for the row the active-task query returned
AddSingleStore(store, user_id, record_id, active_task, new_id) ==
    LET skipped == SkipActive(store, active_task)
        created == PomodoroTask(user_id,
                       calculate_priority_score(records[record_id].priority),
                       1, 0)
        started == start_pomodoro(created)[2]
        inserted == (new_id :> started) @@ skipped
    IN  ShiftOthers(inserted, user_id, new_id)

add_single_task_to_pomodoro(user_id, record_id) ==
    /\ Idle
    /\ IF FindRecord(record_id, user_id) = {}
       THEN /\ pomodoro' = pomodoro
            /\ nextId' = nextId
            /\ last' = Last("add_single", FALSE, "missing", {})
       ELSE /\ \E active_task \in ActiveFirst(pomodoro, user_id) :
                 /\ pomodoro' = AddSingleStore(pomodoro, user_id, record_id,
                                               active_task, nextId)
                 /\ last' = Last("add_single", TRUE,
                                  IF active_task = {} THEN "none" ELSE "active",
                                  {nextId})
            /\ nextId' = nextId + 1
    /\ gen' = GenIdle
    /\ UNCHANGED records

(***************************************************************************)
(* PomodoroIntelligenceService.generate_pomodoro_tasks                     *)
(***************************************************************************)
\* _get_user_top_tasks: the user's active task records (the ORDER BY and the
\* LIMIT 10 only shape the prompt)
get_user_top_tasks(user_id) ==
    {i \in DOMAIN records : /\ records[i].user_id = user_id
                            /\ records[i].status = "active"
                            /\ records[i].category = "task"}

required_fields == {"title", "description", "priority_score", "estimated_pomodoros"}

\* One entry of the pomodoro_tasks list: the keys it has, and the values of
\* priority_score and estimated_pomodoros (num: int() accepts the value).
PlainEntry ==
    [fields |-> required_fields,
     priority_score |-> [num |-> TRUE, val |-> 80],
     estimated_pomodoros |-> [num |-> TRUE, val |-> 2]]

EntryKinds == {"plain", "missing_field", "bad_score", "est_low", "est_high"}

EntryOf(kind) ==
    CASE kind = "plain"         -> PlainEntry
      [] kind = "missing_field" ->
             [PlainEntry EXCEPT !.fields = required_fields \ {"description"}]
      [] kind = "bad_score"     ->
             [PlainEntry EXCEPT !.priority_score = [num |-> FALSE, val |-> 0]]
      [] kind = "est_low"       ->
             [PlainEntry EXCEPT !.estimated_pomodoros = [num |-> TRUE, val |-> 0]]
      [] kind = "est_high"      ->
             [PlainEntry EXCEPT !.estimated_pomodoros = [num |-> TRUE, val |-> 9]]

\* the lists a response may carry: plain entries, but the first may have an
\* estimate outside 1..4 and the last may lack a field or have a bad score
TaskLists ==
    UNION {{[i \in 1..n |-> PlainEntry]}
           \cup {[i \in 1..n |-> IF i = 1 THEN EntryOf(k) ELSE PlainEntry] :
                     k \in {"est_low", "est_high"}}
           \cup {[i \in 1..n |-> IF i = n THEN EntryOf(k) ELSE PlainEntry] :
                     k \in {"missing_field", "bad_score"}}
           : n \in 0..MaxEntries}

\* What query_openrouter does: raise, return an empty value, or return text.
\* A text is described by whether it has a '{', whether it has a '}', whether
\* json.loads accepts text[find('{') : rfind('}') + 1], and the decoded
\* object's pomodoro_tasks value (absent, not a list, or a list).
Response(kind, open, close, decodes, list, tasks) ==
    [kind |-> kind, open |-> open, close |-> close, decodes |-> decodes,
     list |-> list, tasks |-> tasks]

Responses ==
    {Response("raise", FALSE, FALSE, FALSE, "absent", <<>>),
     Response("empty", FALSE, FALSE, FALSE, "absent", <<>>)}
    \cup {Response("text", o, c, FALSE, "absent", <<>>) : o, c \in BOOLEAN}
    \cup {Response("text", TRUE, TRUE, TRUE, l, <<>>) : l \in {"absent", "notlist"}}
    \cup {Response("text", TRUE, TRUE, TRUE, "list", t) : t \in TaskLists}

\* the kind of a response, read off the response alone
ResponseClass(resp) ==
    CASE resp.kind # "text"            -> resp.kind
      [] ~(resp.open /\ resp.close)    -> "no_json"
      [] ~resp.decodes                 -> "bad_json"
      [] resp.list # "list"            -> "no_list"
      [] resp.tasks = <<>>             -> "empty_list"
      [] \E i \in 1..Len(resp.tasks) :
             resp.tasks[i].fields # required_fields -> "missing_field"
      [] OTHER                         -> "valid"

\* _call_ai_for_pomodoro_tasks: success only for a non-empty text
call_ai_success(resp) == resp.kind = "text"

\* pomodoro_tasks[:5]
BatchLimit == 5

Min(a, b) == IF a < b THEN a ELSE b
Max(a, b) == IF a > b THEN a ELSE b

\* _parse_ai_response without the required-field test
parse_ai_response_lenient(resp) ==
    IF ~resp.open \/ ~resp.close
    THEN [ok |-> FALSE, tasks |-> <<>>]
    ELSE IF ~resp.decodes
    THEN [ok |-> FALSE, tasks |-> <<>>]
    ELSE IF resp.list # "list" \/ Len(resp.tasks) = 0
    THEN [ok |-> FALSE, tasks |-> <<>>]
    ELSE [ok |-> TRUE,
          tasks |-> SubSeq(resp.tasks, 1, Min(BatchLimit, Len(resp.tasks)))]

\* _parse_ai_response: [ok |-> FALSE] stands for None
parse_ai_response(resp) ==
    IF ~resp.open \/ ~resp.close
    THEN [ok |-> FALSE, tasks |-> <<>>]
    ELSE IF ~resp.decodes
    THEN [ok |-> FALSE, tasks |-> <<>>]
    ELSE IF resp.list # "list" \/ Len(resp.tasks) = 0
    THEN [ok |-> FALSE, tasks |-> <<>>]
    ELSE IF \E i \in 1..Len(resp.tasks) : ~(required_fields \subseteq resp.tasks[i].fields)
    THEN [ok |-> FALSE, tasks |-> <<>>]
    ELSE [ok |-> TRUE,
          tasks |-> SubSeq(resp.tasks, 1, Min(BatchLimit, Len(resp.tasks)))]

\* clear_user_tasks deleting nothing
clear_user_tasks_none(store, user_id) == store

\* PomodoroTask.clear_user_tasks: delete the user's rows and commit
clear_user_tasks(store, user_id) == Without(store, UserTasks(store, user_id))

\* _create_pomodoro_tasks raises when int() rejects a value of an entry
create_raises(tasks_data) ==
    \E i \in 1..Len(tasks_data) :
        \/ ~tasks_data[i].priority_score.num
        \/ ~tasks_data[i].estimated_pomodoros.num

\* the rows _create_pomodoro_tasks inserts, keyed by their autoincrement ids
create_pomodoro_tasks(user_id, tasks_data, first_id) ==
    [id \in first_id..(first_id + Len(tasks_data) - 1) |->
        LET i == id - first_id + 1
        IN  PomodoroTask(user_id,
                tasks_data[i].priority_score.val,
                Max(1, Min(4, tasks_data[i].estimated_pomodoros.val)),
                i)]

\* steps 1-5: select, call the completion service, parse, clear and commit
generate_begin(user_id, resp) ==
    /\ Idle
    /\ UNCHANGED <<records, nextId>>
    /\ IF get_user_top_tasks(user_id) = {}
       THEN /\ last' = Last("generate", FALSE, "no_tasks", {})
            /\ UNCHANGED pomodoro /\ gen' = GenIdle
       ELSE IF ~call_ai_success(resp)
       THEN /\ last' = Last("generate", FALSE, ResponseClass(resp), {})
            /\ UNCHANGED pomodoro /\ gen' = GenIdle
       ELSE IF ~parse_ai_response(resp).ok
       THEN /\ last' = Last("generate", FALSE, ResponseClass(resp), {})
            /\ UNCHANGED pomodoro /\ gen' = GenIdle
       ELSE /\ pomodoro' = clear_user_tasks(pomodoro, user_id)
            /\ gen' = [pc |-> "cleared", user_id |-> user_id,
                       data |-> parse_ai_response(resp).tasks,
                       prior |-> UserTasks(pomodoro, user_id),
                       entries |-> Len(resp.tasks)]
            /\ last' = Last("generate", FALSE, ResponseClass(resp), {})

\* step 6 and the result: insert the batch and commit, or roll back and fail
generate_create ==
    /\ gen.pc = "cleared"
    /\ UNCHANGED records
    /\ gen' = [gen EXCEPT !.pc = "done", !.data = <<>>]
    /\ IF create_raises(gen.data)
       THEN /\ last' = [last EXCEPT !.ok = FALSE]
            /\ UNCHANGED <<pomodoro, nextId>>
       ELSE /\ pomodoro' = create_pomodoro_tasks(gen.user_id, gen.data, nextId)
                               @@ pomodoro
            /\ nextId' = nextId + Len(gen.data)
            /\ last' = [last EXCEPT !.ok = TRUE,
                                     !.id = DOMAIN create_pomodoro_tasks(
                                                gen.user_id, gen.data, nextId)]

(***************************************************************************)
(* The focus-task specification                                            *)
(***************************************************************************)
TaskIds == 1..MaxId

\* the values the complete route may receive as focus_minutes
FocusMinutes == {10, 25}

InitFocus ==
    /\ records = FocusRecords
    /\ pomodoro = <<>>
    /\ nextId = 1
    /\ gen = GenIdle
    /\ last = Last("none", TRUE, "none", {})

\* the autoincrement sequence stays within cap, the batch a running generate
\* request is about to insert included
IdsWithin(cap) ==
    nextId' + (IF gen'.pc = "cleared" THEN Len(gen'.data) ELSE 0) <= cap + 1

\* the requests served, the completion service answering from resps
Requests(resps) ==
    \/ \E u \in Users, r \in resps : generate_begin(u, r)
    \/ generate_create
    \/ \E u \in Users, r \in DOMAIN BatchRecords : add_single_task_to_pomodoro(u, r)
    \/ \E u \in Users, t \in TaskIds : start_pomodoro_task(u, t)
    \/ \E u \in Users, t \in TaskIds, m \in FocusMinutes : complete_pomodoro_task(u, t, m)
    \/ \E u \in Users, t \in TaskIds : skip_pomodoro_task(u, t)
    \/ \E u \in Users, t \in TaskIds : reset_pomodoro_task(u, t)
    \/ \E u \in Users, t \in TaskIds : delete_pomodoro_task(u, t)

\* responses whose list has at most cap entries, with estimates of at most 2
ShortResponses(cap) ==
    {r \in Responses : /\ Len(r.tasks) <= cap
                       /\ \A i \in 1..Len(r.tasks) :
                              r.tasks[i].estimated_pomodoros.val <= 2}

NextFocus == Requests(ShortResponses(MaxId)) /\ IdsWithin(MaxId)

SpecFocus == InitFocus /\ [][NextFocus]_vars

(***************************************************************************)
(* The batch specification: full-size batches.  The requests served are     *)
(* the two that create rows, generate and add-single.                       *)
(***************************************************************************)
InitBatch ==
    /\ records = BatchRecords
    /\ pomodoro = <<>>
    /\ nextId = 1
    /\ gen = GenIdle
    /\ last = Last("none", TRUE, "none", {})

BatchRequests ==
    \/ \E u \in Users, r \in Responses : generate_begin(u, r)
    \/ generate_create
    \/ \E u \in Users, r \in DOMAIN BatchRecords : add_single_task_to_pomodoro(u, r)

NextBatch == BatchRequests /\ IdsWithin(MaxBatchId)

SpecBatch == InitBatch /\ [][NextBatch]_vars

(***************************************************************************)
(* The start specification: the requests served are generate, add-single    *)
(* and start, for both owners.                                              *)
(***************************************************************************)
StartRequests ==
    \/ \E u \in Users, r \in ShortResponses(MaxStartId) : generate_begin(u, r)
    \/ generate_create
    \/ \E u \in Users, r \in DOMAIN BatchRecords : add_single_task_to_pomodoro(u, r)
    \/ \E u \in Users, t \in 1..MaxStartId : start_pomodoro_task(u, t)

NextStart == StartRequests /\ IdsWithin(MaxStartId)

SpecStart == InitBatch /\ [][NextStart]_vars

(***************************************************************************)
(* Claims about the Focus-Task store                                       *)
(***************************************************************************)
ActiveTasks(store, user_id) ==
    {i \in UserTasks(store, user_id) : store[i].status = "active"}

\* C1: in every reachable state each owner has at most one Focus-Task whose
\* status is active.
C1_AtMostOneActive ==
    \A u \in Users : Cardinality(ActiveTasks(pomodoro, u)) <= 1

\* the step is a successful add-single request of an owner who had an active row
AddSingleWhileActive ==
    /\ last'.op = "add_single" /\ last'.ok /\ last'.pre = "active"
    /\ last'.id = {nextId}
    /\ nextId \in DOMAIN pomodoro'

\* C2: add-single executed while the owner has an active Focus-Task: afterwards
\* every previously active task of the owner is skipped, the new task is active
\* with ordering index 0, and the ordering index of every other task of that
\* owner is exactly one more than before.
C2_AddSingleDisplaces ==
    [][AddSingleWhileActive =>
         LET u == pomodoro'[nextId].user_id
         IN  /\ \A i \in ActiveTasks(pomodoro, u) :
                    i \in DOMAIN pomodoro' /\ pomodoro'[i].status = "skipped"
             /\ pomodoro'[nextId].status = "active"
             /\ pomodoro'[nextId].order_index = 0
             /\ \A i \in UserTasks(pomodoro, u) :
                    /\ i \in DOMAIN pomodoro'
                    /\ pomodoro'[i].order_index = pomodoro[i].order_index + 1
    ]_vars

\* the owner's prior batch is gone and no new batch has been inserted for it
PriorRemovedNothingInserted ==
    /\ gen.prior # {}
    /\ gen.prior \cap DOMAIN pomodoro = {}
    /\ UserTasks(pomodoro, gen.user_id) = {}

\* C3: the clear-and-insert step of generate is atomic: in no state between
\* its commits and in no final outcome has the owner's prior batch been
\* removed without the new batch being inserted; in particular the prior batch
\* is still present when inserting a parsed entry fails.
C3_ClearInsertAtomic ==
    (last.op = "generate" /\ gen.pc \in {"cleared", "done"})
        => ~PriorRemovedNothingInserted

\* the response kinds on which generate must fail without creating anything
FailingKinds ==
    {"raise", "empty", "no_json", "bad_json", "no_list", "empty_list",
     "missing_field"}

\* C4: when the completion service raises, returns an empty text, or returns
\* text that fails parsing or required-field validation, generate returns
\* failure, creates no Focus-Task and leaves the existing ones unchanged.
C4_GenerateFailsClosed ==
    [][(last'.op = "generate" /\ last'.pre \in FailingKinds) =>
          /\ ~last'.ok
          /\ gen'.pc = "idle"
          /\ pomodoro' = pomodoro
          /\ nextId' = nextId
    ]_vars

\* a generate request failed on a response lacking a required field while the
\* owner had Focus-Tasks
C4_Witness ==
    /\ last.op = "generate" /\ ~last.ok /\ last.pre = "missing_field"
    /\ gen.pc = "idle"
    /\ UserTasks(pomodoro, "u1") # {}

\* the state follows a successful generate request
GenerateSucceeded == last.op = "generate" /\ last.ok /\ gen.pc = "done"

OrderIndices(store, ids) == {store[i].order_index : i \in ids}

\* C5 as claimed: after a successful generate the owner's Focus-Tasks are
\* exactly the new entries, there are exactly 5 of them and their ordering
\* indices are 1..5.
C5_ExactlyFive ==
    GenerateSucceeded =>
        LET mine == UserTasks(pomodoro, gen.user_id)
        IN  /\ mine = last.id
            /\ mine \cap gen.prior = {}
            /\ Cardinality(mine) = 5
            /\ OrderIndices(pomodoro, mine) = 1..5

\* C5 amended: after a successful generate the owner's Focus-Tasks are exactly
\* the new entries (no entry of the previous batch remains); there are
\* min(5, k) of them, k >= 1 being the number of entries of the response, and
\* their ordering indices are 1..min(5, k).
C5_FirstFive ==
    GenerateSucceeded =>
        LET mine == UserTasks(pomodoro, gen.user_id)
        IN  /\ mine = last.id
            /\ mine \cap gen.prior = {}
            /\ gen.entries >= 1
            /\ Cardinality(mine) = Min(5, gen.entries)
            /\ OrderIndices(pomodoro, mine) = 1..Min(5, gen.entries)

\* a response of more than 5 entries replaced a previous batch by 5 rows
C5_Witness ==
    /\ GenerateSucceeded
    /\ gen.entries > 5
    /\ gen.prior # {}
    /\ Cardinality(UserTasks(pomodoro, gen.user_id)) = 5

\* the step serves the request op on an existing row i of status pre
TransitionStep(op, i) ==
    /\ last'.op = op /\ last'.id = {i}
    /\ i \in DOMAIN pomodoro /\ i \in DOMAIN pomodoro'

\* all rows but row i are as before
OthersUnchanged(i) ==
    /\ DOMAIN pomodoro' = DOMAIN pomodoro
    /\ \A j \in DOMAIN pomodoro \ {i} : pomodoro'[j] = pomodoro[j]

\* C6: start on a pending Focus-Task sets its status to active, stamps a start
\* time and returns success; start on an active, completed or skipped task
\* returns failure and changes no field of the task.
C6_Start ==
    [][\A i \in TaskIds : TransitionStep("start", i) =>
          IF pomodoro[i].status = "pending"
          THEN /\ last'.ok
               /\ pomodoro'[i] = [pomodoro[i] EXCEPT !.status = "active",
                                                     !.started_at = "utcnow"]
               /\ OthersUnchanged(i)
          ELSE /\ ~last'.ok
               /\ pomodoro' = pomodoro
    ]_vars

\* a start request addressed an active Focus-Task and was refused
C6_Witness ==
    /\ last.op = "start" /\ ~last.ok /\ last.pre = "active"
    /\ \E i \in last.id : pomodoro[i].status = "active"

\* the counters agree with the status
CountersAgree ==
    \A i \in DOMAIN pomodoro :
        /\ pomodoro[i].status = "pending" => pomodoro[i].pomodoros_completed = 0
        /\ pomodoro[i].status = "active" =>
               pomodoro[i].pomodoros_completed < pomodoro[i].estimated_pomodoros
        /\ pomodoro[i].status = "completed" =>
               pomodoro[i].pomodoros_completed = pomodoro[i].estimated_pomodoros

\* the fields a complete request may change
CompleteFields == {"status", "completed_at", "pomodoros_completed", "total_focus_time"}

SameBut(t, u, fields) == \A f \in DOMAIN t \ fields : t[f] = u[f]

\* C7: complete on an active Focus-Task with estimate n and counter c raises the
\* counter to c + 1, stays active when c + 1 < n and becomes completed with a
\* completion time when c + 1 reaches n; a started task has counter 0 and an
\* active one a counter below n, so n complete requests after start leave it
\* active n - 1 times and completed on the n-th; complete on a task that is not
\* active returns failure and changes nothing.
C7_CompleteUnit ==
    /\ []CountersAgree
    /\ [][\A i \in TaskIds : TransitionStep("complete", i) =>
            IF pomodoro[i].status = "active"
            THEN LET c == pomodoro[i].pomodoros_completed
                     n == pomodoro[i].estimated_pomodoros
                 IN  /\ last'.ok
                     /\ pomodoro'[i].pomodoros_completed = c + 1
                     /\ IF c + 1 < n
                        THEN /\ pomodoro'[i].status = "active"
                             /\ pomodoro'[i].completed_at = pomodoro[i].completed_at
                        ELSE /\ c + 1 = n
                             /\ pomodoro'[i].status = "completed"
                             /\ pomodoro'[i].completed_at = "utcnow"
                     /\ SameBut(pomodoro'[i], pomodoro[i], CompleteFields)
                     /\ OthersUnchanged(i)
            ELSE /\ ~last'.ok
                 /\ pomodoro' = pomodoro
       ]_vars

\* the second complete request completed a Focus-Task of estimate 2
C7_Witness ==
    /\ last.op = "complete" /\ last.ok /\ last.pre = "active"
    /\ \E i \in last.id : /\ pomodoro[i].estimated_pomodoros = 2
                          /\ pomodoro[i].pomodoros_completed = 2
                          /\ pomodoro[i].status = "completed"
                          /\ pomodoro[i].completed_at = "utcnow"

\* C8: reset applied to a Focus-Task in any state returns it to pending with
\* the completed-unit counter 0, accumulated minutes 0 and the start and
\* completion timestamps cleared.
C8_Reset ==
    [][\A i \in TaskIds : TransitionStep("reset", i) =>
          /\ last'.ok
          /\ pomodoro'[i] = [pomodoro[i] EXCEPT !.status = "pending",
                                                !.pomodoros_completed = 0,
                                                !.total_focus_time = 0,
                                                !.started_at = "None",
                                                !.completed_at = "None"]
          /\ OthersUnchanged(i)
    ]_vars

\* a reset request returned a completed Focus-Task to pending
C8_Witness ==
    /\ last.op = "reset" /\ last.ok /\ last.pre = "completed"
    /\ \E i \in last.id : /\ pomodoro[i].status = "pending"
                          /\ pomodoro[i].pomodoros_completed = 0
                          /\ pomodoro[i].completed_at = "None"

(***************************************************************************)
(* Records and their one-level hierarchy: the three routes that create a   *)
(* record.  A request carries a valid content; ids are drawn at random by  *)
(* Record.__init__, here from RecordIds.  parent_id 0 stands for no        *)
(* parent: the routes test "if parent_id", which 0 and None both fail.     *)
(***************************************************************************)
MaxRecordId == 2
MaxSuggestions == 2

RecordIds == 1..MaxRecordId

\* ids a request may address
AddressedIds == RecordIds \cup DOMAIN FocusRecords

\* Authorization headers: none, one that does not decode, or a user's token
Tokens == {"absent", "invalid"} \cup Users

\* users whose is_admin column is set
Admins == {"u2"}

get_user_for_record_access(token) ==
    IF token = "absent"
    THEN [user_id |-> "None", access_level |-> "guest", auth_error |-> FALSE]
    ELSE IF token \notin Users
    THEN [user_id |-> "None", access_level |-> "guest", auth_error |-> TRUE]
    ELSE IF token \in Admins
    THEN [user_id |-> token, access_level |-> "admin", auth_error |-> FALSE]
    ELSE [user_id |-> token, access_level |-> "user", auth_error |-> FALSE]

\* the decorator lets the request through only with a user's token
token_required(token) == token \in Users

ValidCategories == {"idea", "task", "note", "general"}

\* categories a request may name
CategoryInputs == {"task", "note", "bogus"}

Record(category, parent_id, user_id) ==
    [user_id |-> user_id,
     category |-> category,
     status |-> "active",
     priority |-> "medium",
     parent_id |-> parent_id,
     updated_at |-> "created"]

\* is_task with every category accepted
is_task_any(r) == TRUE

is_task(r) == r.category = "task"

can_have_subtasks(r) == is_task(r)

\* what the route's parent query returns, as a set of at most one id: the
\* administrator's get_or_404 looks at the id alone, the others at the owner too
ParentQuery(access, record_id) ==
    IF access.access_level = "admin"
    THEN {i \in DOMAIN records : i = record_id}
    ELSE FindRecord(record_id, access.user_id)

\* the category of the addressed parent, for the history
ParentKind(parent_id) ==
    IF parent_id = 0 THEN "none"
    ELSE IF parent_id \notin DOMAIN records THEN "missing"
    ELSE records[parent_id].category

RecordStep(op, ok, parent_id) ==
    /\ last' = Last(op, ok, ParentKind(parent_id), {})
    /\ UNCHANGED <<pomodoro, nextId, gen>>

\* what a create_record request leaves: attempts is the number of commits
\* it tried
CreateStep(ok, parent_id, attempts) ==
    /\ last' = Last("create_record", ok, ParentKind(parent_id), {})
                   @@ [attempts |-> attempts]
    /\ UNCHANGED <<pomodoro, nextId, gen>>

\* POST /api/records: one add and one commit, which fails when the id
\* Record.__init__ drew is taken; whatever is raised gives DATABASE_ERROR
create_record(token, category, parent_id) ==
    LET access == get_user_for_record_access(token)
        parent_record == FindRecord(parent_id, access.user_id)
        rejected ==
            \/ category \notin ValidCategories
            \/ /\ parent_id # 0
               /\ \/ parent_record = {}
                  \/ \E p \in parent_record : ~is_task(records[p])
    IN  IF rejected
        THEN /\ records' = records
             /\ CreateStep(FALSE, parent_id, 0)
        ELSE \E id \in RecordIds :
                 LET ok == id \notin DOMAIN records
                     record == Record(category, parent_id, access.user_id)
                 IN  /\ records' = IF ok THEN (id :> record) @@ records
                                   ELSE records
                     /\ CreateStep(ok, parent_id, 1)

\* attempts add_subtask makes before it gives up
MaxRetries == 3

\* the ids one add_subtask call may draw: the constructor's, then one after
\* each collision
Attempts == [1..MaxRetries -> RecordIds]

\* the first attempt, after the first, whose id is not in taken; 0 when none
FirstFree(ids, taken) ==
    LET free == {k \in 2..MaxRetries : ids[k] \notin taken}
    IN  IF free = {} THEN 0 ELSE CHOOSE k \in free : \A j \in free : k <= j

\* the session of one request: the rows flushed and not yet committed
\* (a function from id to row), the id of the row add_subtask returned last,
\* and whether an exception reached the route
NoSession == [pending |-> <<>>, subtask |-> 0, failed |-> FALSE]

Raised == [pending |-> <<>>, subtask |-> 0, failed |-> TRUE]

\* Record.add_subtask on parent parent_id within session: the first flush
\* collides with a committed or a flushed id; its rollback discards the
\* flushed rows, so a later attempt collides with a committed id only.
\* The new row belongs to the parent's owner.
add_subtask(session, parent_id, category, ids) ==
    LET row == Record(category, parent_id, records[parent_id].user_id)
        k == FirstFree(ids, DOMAIN records)
    IN  IF ~can_have_subtasks(records[parent_id])
        THEN Raised
        ELSE IF ids[1] \notin DOMAIN records \cup DOMAIN session.pending
        THEN [session EXCEPT !.pending = (ids[1] :> row) @@ @,
                             !.subtask = ids[1]]
        ELSE IF k # 0
        THEN [session EXCEPT !.pending = (ids[k] :> row),
                             !.subtask = ids[k]]
        ELSE Raised

\* the route's assignment of the caller to the row it has just been handed
SetOwner(session, user_id) ==
    IF session.failed
    THEN session
    ELSE [session EXCEPT !.pending[session.subtask].user_id = user_id]

\* the sessions one add_subtask call may lead to, over the ids it may draw
AfterSubtask(session, record_id, category, user_id) ==
    {SetOwner(add_subtask(session, record_id, category, ids), user_id)
     : ids \in Attempts}

\* POST /api/records/<record_id>/subtasks; a progress_notes over the limit
\* returns after add_subtask and before the commit
create_subtask(token, record_id, category) ==
    LET access == get_user_for_record_access(token)
        parent_record == ParentQuery(access, record_id)
        coerced == IF category \in ValidCategories THEN category ELSE "task"
        refused ==
            \/ access.auth_error /\ access.access_level = "guest"
            \/ parent_record = {}
            \/ ~is_task(records[record_id])
    IN  IF refused
        THEN /\ records' = records
             /\ RecordStep("create_subtask", FALSE, record_id)
        ELSE \E session \in AfterSubtask(NoSession, record_id, coerced,
                                         access.user_id),
                notes_too_long \in BOOLEAN :
                 LET ok == ~session.failed /\ ~notes_too_long
                 IN  /\ records' = IF ok THEN session.pending @@ records
                                   ELSE records
                     /\ RecordStep("create_subtask", ok, record_id)

\* the suggestion lists of a request, TRUE for a suggestion with a title:
\* every suggestion has one, or every one but the last
SuggestionLists ==
    UNION {{[i \in 1..n |-> TRUE], [i \in 1..n |-> i < n]}
           : n \in 0..MaxSuggestions}

\* the sessions one more suggestion may lead to
AfterSuggestion(session, record_id, user_id, titled) ==
    IF session.failed \/ ~titled
    THEN {session}
    ELSE AfterSubtask(session, record_id, "task", user_id)

RECURSIVE AfterSuggestions(_, _, _, _)
AfterSuggestions(sessions, record_id, user_id, suggestions) ==
    IF suggestions = <<>>
    THEN sessions
    ELSE AfterSuggestions(
             UNION {AfterSuggestion(s, record_id, user_id, Head(suggestions))
                    : s \in sessions},
             record_id, user_id, Tail(suggestions))

\* POST /api/records/<record_id>/create-subtasks-from-ai
create_subtasks_from_ai_suggestions(token, record_id, suggestions) ==
    LET access == get_user_for_record_access(token)
        record == ParentQuery(access, record_id)
        refused ==
            \/ ~token_required(token)
            \/ record = {}
            \/ ~is_task(records[record_id])
    IN  IF refused
        THEN /\ records' = records
             /\ RecordStep("create_from_ai", FALSE, record_id)
        ELSE \E session \in AfterSuggestions({NoSession}, record_id,
                                             access.user_id, suggestions) :
                 /\ records' = IF session.failed
                               THEN records
                               ELSE session.pending @@ records
                 /\ RecordStep("create_from_ai", ~session.failed, record_id)

\* the table already holds one task of u1
InitRecords ==
    /\ records = FocusRecords
    /\ pomodoro = <<>>
    /\ nextId = 1
    /\ gen = GenIdle
    /\ last = Last("none", TRUE, "none", {})

NextRecords ==
    \/ \E token \in Tokens, category \in CategoryInputs,
          parent_id \in {0} \cup AddressedIds :
           create_record(token, category, parent_id)
    \/ \E token \in Tokens, record_id \in AddressedIds, category \in CategoryInputs :
           create_subtask(token, record_id, category)
    \/ \E token \in Tokens, record_id \in AddressedIds,
          suggestions \in SuggestionLists :
           create_subtasks_from_ai_suggestions(token, record_id, suggestions)

SpecRecords == InitRecords /\ [][NextRecords]_vars

CreateOps == {"create_record", "create_subtask", "create_from_ai"}

\* every record that is the parent of some record exists and is a task
ParentsAreTasks ==
    \A i \in DOMAIN records :
        records[i].parent_id # 0 =>
            /\ records[i].parent_id \in DOMAIN records
            /\ records[records[i].parent_id].category = "task"

\* C9: creating a record under a parent whose category is not task is rejected
\* and creates nothing, on each of the three creation routes; hence in every
\* reachable state every record that is the parent of some record has
\* category task.
C9_OnlyTasksOwnChildren ==
    /\ []ParentsAreTasks
    /\ [][(last'.op \in CreateOps /\ last'.pre \notin {"none", "missing", "task"})
            => (~last'.ok /\ records' = records)]_vars

\* a child creation addressed a record that is not a task and was refused,
\* while another record does have a child
C9_Witness ==
    /\ last.op = "create_subtask" /\ ~last.ok /\ last.pre = "note"
    /\ \E i \in DOMAIN records : records[i].parent_id # 0

\* C10: creating a record under a parent that itself has a parent is rejected,
\* so in every reachable state no record with a non-null parent has children.
C10_DepthAtMostOne ==
    \A i \in DOMAIN records :
        records[i].parent_id # 0 =>
            /\ records[i].parent_id \in DOMAIN records
            /\ records[records[i].parent_id].parent_id = 0


(***************************************************************************)
(* Status edits and reads of records: PUT and DELETE /api/records/<id>,    *)
(* and the queries behind the listing, the child listing and the lookup by *)
(* id.  updated_at is "created" until a route stamps it with the time of   *)
(* the request, "utcnow".                                                  *)
(***************************************************************************)
RecordStatuses == {"active", "completed", "paused", "cancelled", "archived", "deleted"}

\* the status a PUT may carry: none, some of the six, or another word
StatusInputs == {"absent", "bogus", "active", "completed", "archived", "deleted"}

RecordPriorities == {"low", "medium", "high", "urgent"}

\* the priority a PUT may carry
PriorityInputs == {"absent", "bogus", "high"}

\* u1's task 11 with two children
StatusRecords ==
    FocusRecords @@
    (12 :> Record("task", 11, "u1")) @@
    (13 :> Record("note", 11, "u1"))

\* the record a PUT, DELETE or GET by id finds, as a set of at most one id
AccessQuery(access, record_id) == ParentQuery(access, record_id)

\* the status of the addressed record as the caller finds it
FoundStatus(access, record_id) ==
    IF AccessQuery(access, record_id) = {} THEN "missing"
    ELSE records[record_id].status

StatusStep(op, ok, access, record_id) ==
    /\ last' = Last(op, ok, FoundStatus(access, record_id), {record_id})
    /\ UNCHANGED <<pomodoro, nextId, gen>>

\* the other fields a PUT may carry (content, progress_notes, progress,
\* task_type): none of them, all of them valid, or one of them invalid
RestInputs == {"absent", "valid", "invalid"}

UpdateData == [status : StatusInputs, priority : PriorityInputs, rest : RestInputs]

\* the row after the assignments of update_record
Updated(r, data) ==
    [r EXCEPT !.status = IF data.status = "absent" THEN @ ELSE data.status,
              !.priority = IF data.priority = "absent" THEN @ ELSE data.priority,
              !.updated_at = "utcnow"]

\* PUT /api/records/<record_id>
update_record(token, record_id, data) ==
    LET access == get_user_for_record_access(token)
        refused ==
            \/ access.auth_error /\ access.access_level = "guest"
            \/ AccessQuery(access, record_id) = {}
            \/ data.status = "absent" /\ data.priority = "absent" /\ data.rest = "absent"
            \/ data.status \notin RecordStatuses \cup {"absent"}
            \/ data.priority \notin RecordPriorities \cup {"absent"}
            \/ data.rest = "invalid"
    IN  /\ records' = IF refused THEN records
                      ELSE [records EXCEPT ![record_id] = Updated(@, data)]
        /\ StatusStep("update_record", ~refused, access, record_id)

\* a soft delete that leaves the updated time alone
soft_delete_unstamped(r) == [r EXCEPT !.status = "deleted"]

\* the row after a soft delete
soft_delete(r) == [r EXCEPT !.status = "deleted", !.updated_at = "utcnow"]

\* DELETE /api/records/<record_id>; Record has no hard_delete method, so
\* hard_delete=true raises and the route answers 500
delete_record(token, record_id, hard_delete) ==
    LET access == get_user_for_record_access(token)
        refused ==
            \/ access.auth_error /\ access.access_level = "guest"
            \/ AccessQuery(access, record_id) = {}
            \/ hard_delete
    IN  /\ records' = IF refused THEN records
                      ELSE [records EXCEPT ![record_id] = soft_delete(@)]
        /\ StatusStep("delete_record", ~refused, access, record_id)

\* the rows the caller may see in GET /api/records
Visible(store, access) ==
    IF access.access_level = "admin" THEN DOMAIN store
    ELSE {i \in DOMAIN store : store[i].user_id = access.user_id}

\* GET /api/records with the status filter given (category, priority,
\* task_type and search left out): the ids listed
get_records(store, access, status, include_subtasks) ==
    LET by_status ==
            IF status \in {"", "all"}
            THEN {i \in Visible(store, access) : store[i].status # "deleted"}
            ELSE IF status = "pending"
            THEN {i \in Visible(store, access) :
                     store[i].status \notin {"completed", "cancelled", "deleted"}}
            ELSE {i \in Visible(store, access) : store[i].status = status}
    IN  IF include_subtasks THEN by_status
        ELSE {i \in by_status : store[i].parent_id = 0}

\* get_subtasks leaving deleted children out when include_inactive is set
get_subtasks_not_deleted(store, parent_id, include_inactive) ==
    IF include_inactive
    THEN {i \in DOMAIN store : store[i].parent_id = parent_id
                               /\ store[i].status # "deleted"}
    ELSE {i \in DOMAIN store : store[i].parent_id = parent_id
                               /\ store[i].status = "active"}

\* Record.get_subtasks of the row parent_id: the ids returned
get_subtasks(store, parent_id, include_inactive) ==
    IF include_inactive
    THEN {i \in DOMAIN store : store[i].parent_id = parent_id}
    ELSE {i \in DOMAIN store : store[i].parent_id = parent_id
                               /\ store[i].status = "active"}

\* GET /api/records/<record_id>: the id returned, as a set of at most one id
get_record(store, access, record_id) ==
    IF access.auth_error /\ access.access_level = "guest" THEN {}
    ELSE IF access.access_level = "admin"
    THEN {i \in DOMAIN store : i = record_id}
    ELSE {i \in DOMAIN store : i = record_id /\ store[i].user_id = access.user_id}

InitStatus ==
    /\ records = StatusRecords
    /\ pomodoro = <<>>
    /\ nextId = 1
    /\ gen = GenIdle
    /\ last = Last("none", TRUE, "none", {})

NextStatus ==
    \/ \E token \in Tokens, record_id \in DOMAIN StatusRecords, data \in UpdateData :
           update_record(token, record_id, data)
    \/ \E token \in Tokens, record_id \in DOMAIN StatusRecords, hard_delete \in BOOLEAN :
           delete_record(token, record_id, hard_delete)

SpecStatus == InitStatus /\ [][NextStatus]_vars

\* C11: every child record is created with the same owner as its parent, on
\* every creation route and for every caller role, an administrator creating
\* a child under another owner's task included; no route changes an owner
\* afterwards, so every stored child has its parent's owner.
C11_ChildHasParentOwner ==
    \A i \in DOMAIN records :
        (records[i].parent_id # 0 /\ records[i].parent_id \in DOMAIN records)
            => records[i].user_id = records[records[i].parent_id].user_id

\* C12: once a record's status is deleted, no caller-facing mutating
\* operation changes its status to any other value.
C12_DeletedIsTerminal ==
    [][\A i \in DOMAIN records :
          records[i].status = "deleted" =>
              (i \in DOMAIN records' /\ records'[i].status = "deleted")]_vars

Accesses == {get_user_for_record_access(token) : token \in Tokens}

\* the children of parent_id in store
Children(store, parent_id) ==
    {i \in DOMAIN store : store[i].parent_id = parent_id}

\* C13: soft delete sets the record's status to deleted and its updated time
\* without removing the row; afterwards the record is absent from the default
\* listings of every caller, is still returned by
\* get_subtasks(include_inactive=True) on its parent, and is still retrievable
\* by its id by whoever could retrieve it before.
C13_SoftDelete ==
    [][(last'.op = "delete_record" /\ last'.ok) =>
          \A i \in last'.id :
              /\ DOMAIN records' = DOMAIN records
              /\ records'[i] = [records[i] EXCEPT !.status = "deleted",
                                                  !.updated_at = "utcnow"]
              /\ \A j \in DOMAIN records \ {i} : records'[j] = records[j]
              /\ \A a \in Accesses, inc \in BOOLEAN :
                     /\ i \notin get_records(records', a, "", inc)
                     /\ i \notin get_records(records', a, "all", inc)
                     /\ get_record(records', a, i) = get_record(records, a, i)
              /\ \E a \in Accesses : get_record(records', a, i) = {i}
              /\ records[i].parent_id # 0 =>
                     i \in get_subtasks(records', records[i].parent_id, TRUE)
    ]_vars

\* the child 12, listed by default before, has just been soft-deleted
C13_Witness ==
    /\ last.op = "delete_record" /\ last.ok /\ last.pre = "active"
    /\ last.id = {12}
    /\ records[12].status = "deleted" /\ records[12].updated_at = "utcnow"
    /\ 12 \in get_subtasks(records, 11, TRUE)

\* C14 as claimed: include_inactive=False returns exactly the active
\* children, include_inactive=True exactly the children that are not deleted
C14_NotDeletedChildren ==
    \A p \in DOMAIN records :
        /\ get_subtasks(records, p, FALSE) =
               {i \in Children(records, p) : records[i].status = "active"}
        /\ get_subtasks(records, p, TRUE) =
               {i \in Children(records, p) : records[i].status # "deleted"}

\* C14: listChildren(parentId, includeInactive=false) returns exactly the
\* children whose status is active, and listChildren(parentId,
\* includeInactive=true) returns exactly all the children, whatever their
\* status, the deleted ones included.
C14_AllChildren ==
    \A p \in DOMAIN records :
        /\ get_subtasks(records, p, FALSE) =
               {i \in Children(records, p) : records[i].status = "active"}
        /\ get_subtasks(records, p, TRUE) = Children(records, p)

\* the parent 11 has a deleted child and an active one
C14_Witness ==
    /\ records[12].status = "deleted" /\ records[13].status = "active"
    /\ get_subtasks(records, 11, FALSE) = {13}
    /\ get_subtasks(records, 11, TRUE) = {12, 13}

(***************************************************************************)
(* Response parsers of the analysis, decomposition and insights services   *)
(***************************************************************************)
\* A completion text is a sequence of tokens: the two braces, the names of
\* top-level keys, and "x" for any other character.  A JSON object is
\* "{" member* "}" where a member is a key, optionally followed by an object
\* that is its value.

\* required_fields of _parse_ai_response
analysis_required_fields ==
    {"execution_strategy", "opportunities", "subtask_suggestions"}

\* required_fields of _parse_decomposition_response
decomposition_required_fields ==
    {"task_analysis", "enhanced_subtasks", "execution_strategy"}

\* the top-level keys of the insights payload: those of the output format
\* the prompt demands, which are those of _get_fallback_insights
insights_fields ==
    {"overall_assessment", "core_insights", "actionable_recommendations",
     "risk_alerts", "motivation_message"}

\* every key in a fixed order, "other" being a key no contract names
KeyOrder ==
    <<"execution_strategy", "opportunities", "subtask_suggestions",
      "task_analysis", "enhanced_subtasks", "overall_assessment",
      "core_insights", "actionable_recommendations", "risk_alerts",
      "motivation_message", "other">>

\* depth of nested objects json.loads decodes before the interpreter raises
\* RecursionError
RecursionLimit == 2

\* deepest nesting of the objects in the texts drawn
MaxNesting == 2

\* the key sets of the objects drawn: a contract's keys or all of them but
\* one, with and without a key no contract names
KeySets ==
    LET NearlyAll(fields) == {fields} \cup {fields \ {f} : f \in fields}
        core == NearlyAll(analysis_required_fields)
                    \cup NearlyAll(decomposition_required_fields)
                    \cup NearlyAll(insights_fields) \cup {{}}
    IN  core \cup {ks \cup {"other"} : ks \in core}

\* the text of the object with the keys ks
ObjectText(ks) ==
    <<"{">> \o SelectSeq(KeyOrder, LAMBDA k : k \in ks) \o <<"}">>

\* an object nested n deep
RECURSIVE NestedText(_)
NestedText(n) ==
    IF n = 0 THEN <<"{", "}">>
    ELSE <<"{", "other">> \o NestedText(n - 1) \o <<"}">>

\* The texts drawn.  The middle of a text: nothing, no JSON, an unclosed
\* object, two objects, a value without a key, an object, nested objects.
Texts ==
    LET Cores == {<<>>, <<"x">>, <<"{", "other">>, <<"{", "}", "{", "}">>,
                  <<"{", "{", "}", "}">>}
                     \cup {ObjectText(ks) : ks \in KeySets}
                     \cup {NestedText(n) : n \in 1..MaxNesting}
    IN  {pre \o core \o post :
            pre \in {<<>>, <<"x">>, <<"}">>}, core \in Cores,
            post \in {<<>>, <<"x">>, <<"{">>, <<"}">>}}

\* str.find: the 0-based index of the first ch, or -1
find(text, ch) ==
    IF \E n \in 1..Len(text) : text[n] = ch
    THEN (CHOOSE n \in 1..Len(text) :
              text[n] = ch /\ \A m \in 1..(n - 1) : text[m] # ch) - 1
    ELSE -1

\* str.rfind: the 0-based index of the last ch, or -1
rfind(text, ch) ==
    IF \E n \in 1..Len(text) : text[n] = ch
    THEN (CHOOSE n \in 1..Len(text) :
              text[n] = ch /\ \A m \in (n + 1)..Len(text) : text[m] # ch) - 1
    ELSE -1

\* text[start_idx:end_idx] for indices that are not negative
Slice(text, start_idx, end_idx) == SubSeq(text, start_idx + 1, end_idx)

\* The scanner of json.loads.  ScanObject reads the object opening at s[n],
\* depth objects deep; ScanMembers reads its members from s[n] on.  Both
\* return the position after the object and its keys, or the error raised.
RECURSIVE ScanObject(_, _, _)
RECURSIVE ScanMembers(_, _, _, _)
ScanMembers(s, n, depth, keys) ==
    IF n > Len(s) THEN [kind |-> "JSONDecodeError"]
    ELSE IF s[n] = "}" THEN [kind |-> "object", next |-> n + 1, keys |-> keys]
    ELSE IF s[n] \in {"{", "x"} THEN [kind |-> "JSONDecodeError"]
    ELSE IF n < Len(s) /\ s[n + 1] = "{"
         THEN LET value == ScanObject(s, n + 1, depth + 1)
              IN  IF value.kind # "object" THEN value
                  ELSE ScanMembers(s, value.next, depth, keys \cup {s[n]})
         ELSE ScanMembers(s, n + 1, depth, keys \cup {s[n]})

ScanObject(s, n, depth) ==
    IF depth > RecursionLimit THEN [kind |-> "RecursionError"]
    ELSE ScanMembers(s, n + 1, depth, {})

\* json.loads(s): the decoded object, by its keys, or the exception raised
json_loads(s) ==
    IF s = <<>> \/ s[1] # "{" THEN [kind |-> "JSONDecodeError"]
    ELSE LET r == ScanObject(s, 1, 1)
         IN  IF r.kind = "object" /\ r.next # Len(s) + 1
             THEN [kind |-> "JSONDecodeError"]
             ELSE r

\* what a parser returns or raises
Return(value) == [raised |-> "none", value |-> value]

\* a payload: its top-level keys and whether it is the static one of variant
Decoded(keys) == [keys |-> keys, static |-> "none"]
NoValue == [keys |-> {}, static |-> "no value"]

Raise(exception) == [raised |-> exception, value |-> NoValue]
get_fallback_response == [keys |-> analysis_required_fields,
                          static |-> "analysis"]
get_decomposition_fallback ==
    [keys |-> decomposition_required_fields \cup {"other"},
     static |-> "decomposition"]
get_fallback_insights == [keys |-> insights_fields, static |-> "insights"]

\* the body shared by the three parsers: extract, decode, check the fields in
\* required, fall back on JSONDecodeError and ValueError only
ParseOrFallback(response, required, fallback) ==
    LET start_idx == find(response, "{")
        end_idx == rfind(response, "}") + 1
    IN  IF start_idx = -1 \/ end_idx = 0 THEN Return(fallback)
        ELSE LET r == json_loads(Slice(response, start_idx, end_idx))
             IN  IF r.kind = "JSONDecodeError" THEN Return(fallback)
                 ELSE IF r.kind # "object" THEN Raise(r.kind)
                 ELSE IF \E field \in required : field \notin r.keys
                      THEN Return(fallback)
                      ELSE Return(Decoded(r.keys))

AIIntelligenceService_parse_ai_response(response) ==
    ParseOrFallback(response, analysis_required_fields, get_fallback_response)

parse_decomposition_response(response) ==
    ParseOrFallback(response, decomposition_required_fields,
                    get_decomposition_fallback)

\* _parse_insights_response checks no field
parse_insights_response(response) ==
    ParseOrFallback(response, {}, get_fallback_insights)

\* the parser of each contract variant, its required fields and its fallback
Variants == {"analysis", "decomposition", "insights"}

ParserOf(variant, response) ==
    CASE variant = "analysis" -> AIIntelligenceService_parse_ai_response(response)
      [] variant = "decomposition" -> parse_decomposition_response(response)
      [] variant = "insights" -> parse_insights_response(response)

\* a call of a service function: gen.data keeps its argument, last what it
\* returned or raised
Called(op, result) ==
    [op |-> op, ok |-> result.raised = "none", raised |-> result.raised,
     value |-> result.value]

parse(variant) ==
    /\ last.op = "none"
    /\ last' = Called(variant, ParserOf(variant, gen.data))
    /\ UNCHANGED <<records, pomodoro, nextId, gen>>

InitParse ==
    /\ records = <<>>
    /\ pomodoro = <<>>
    /\ nextId = 1
    /\ \E text \in Texts : gen = [GenIdle EXCEPT !.data = text]
    /\ last = Called("none", Return(NoValue))

NextParse == \E variant \in Variants : parse(variant)

SpecParse == InitParse /\ [][NextParse]_vars

\* the fields the contract of a variant requires
ContractFields(variant) ==
    CASE variant = "analysis" -> analysis_required_fields
      [] variant = "decomposition" -> decomposition_required_fields
      [] variant = "insights" -> insights_fields

FallbackOf(variant) ==
    CASE variant = "analysis" -> get_fallback_response
      [] variant = "decomposition" -> get_decomposition_fallback
      [] variant = "insights" -> get_fallback_insights

\* C15: for each contract variant, parse applied to any text returns the
\* decoded object when the substring from the first "{" to the last "}"
\* decodes to a JSON object holding every field the variant requires, and
\* returns the variant's static fallback payload otherwise; it never raises.
C15_ParseOrFallback ==
    last.op \in Variants =>
        LET text == gen.data
            braces == find(text, "{") # -1 /\ rfind(text, "}") # -1
            r == IF braces
                 THEN json_loads(Slice(text, find(text, "{"),
                                       rfind(text, "}") + 1))
                 ELSE [kind |-> "JSONDecodeError"]
            complete == /\ r.kind = "object"
                        /\ ContractFields(last.op) \subseteq r.keys
        IN  /\ last.raised = "none"
            /\ last.value = IF complete THEN Decoded(r.keys)
                            ELSE FallbackOf(last.op)

(***************************************************************************)
(* Progress analysis                                                       *)
(***************************************************************************)
\* What the queries of one analysis count, for a window of at most a week:
\*   total, completed            the owner's tasks created in the window
\*   high_total, high_completed  those of high priority
\*   stalled      active tasks created over 7 days ago with progress < 100
\*   stuck        high-priority active or paused tasks created over 7 days ago
\*   paused_by_type   the paused tasks of the window, by task_type
\*   type_counts  <<total, completed>> of the window for each type examined
\*   recent, previous   tasks completed in the last 7 days and the 7 before

\* tasks in the window
MaxTasks == 10
\* high-priority tasks in the window
MaxHigh == 4
\* stalled tasks
MaxStalled == 5
\* stuck high-priority tasks
MaxStuck == 4
\* paused tasks of one type
MaxPaused == 3

\* the types _identify_bottlenecks examines
TaskTypes == {"work", "personal", "learning", "health"}

\* <<total, completed>> of one type: none, too few, low, exactly half, high
TypeCounts == {<<0, 0>>, <<2, 0>>, <<3, 1>>, <<4, 2>>, <<3, 2>>}

PausedInputs ==
    {<<>>} \cup {("work" :> n) : n \in 1..MaxPaused}
           \cup {("work" :> n) @@ ("general" :> 1) : n \in 1..MaxPaused}

\* sum(f.values())
RECURSIVE Sum(_)
Sum(f) ==
    IF DOMAIN f = {} THEN 0
    ELSE LET k == CHOOSE k \in DOMAIN f : TRUE
         IN  f[k] + Sum([j \in DOMAIN f \ {k} |-> f[j]])

\* 10 tasks of which 6 completed, 2 of high priority both completed, 1
\* stalled; 2 stuck, 3 paused tasks of one type, 1 type of low completion
ScenarioCounts ==
    [total |-> 10, completed |-> 6, high_total |-> 2, high_completed |-> 2,
     stalled |-> 1, stuck |-> 2, paused_by_type |-> ("work" :> 3),
     type_counts |-> [ty \in TaskTypes |->
                          IF ty = "work" THEN <<3, 1>> ELSE <<0, 0>>],
     recent |-> 1, previous |-> 1]

\* The counts drawn, among those a store of records can produce: those of
\* base with other counts for the efficiency score, for the bottleneck
\* score, or for the trend.
CountInputs(base) ==
    LET EfficiencyCounts ==
            {[base EXCEPT !.total = t, !.completed = c,
                                    !.high_total = ht, !.high_completed = hc,
                                    !.stalled = st] :
                t \in 0..MaxTasks, c \in 0..MaxTasks, ht \in 0..MaxHigh,
                hc \in 0..MaxHigh, st \in 0..MaxStalled}
        BottleneckCounts ==
            {[base EXCEPT !.stuck = s, !.paused_by_type = p,
                                    !.type_counts = tc] :
                s \in 0..MaxStuck, p \in PausedInputs,
                tc \in [TaskTypes -> TypeCounts]}
        TrendCounts ==
            {[base EXCEPT !.recent = r, !.previous = p] :
                r, p \in 0..2}
    IN
    {n \in EfficiencyCounts \cup BottleneckCounts \cup TrendCounts :
        /\ n.completed <= n.total
        /\ n.high_total <= n.total
        /\ n.high_completed <= n.high_total
        /\ n.high_completed <= n.completed
        /\ n.completed - n.high_completed <= n.total - n.high_total}

\* round(p / q) of Python 3 for p >= 0 and q > 0: to the nearest integer, a
\* tie going to the even one
PythonRound(p, q) ==
    LET floor == p \div q
        rest == p % q
    IN  IF 2 * rest < q THEN floor
        ELSE IF 2 * rest > q THEN floor + 1
        ELSE IF floor % 2 = 0 THEN floor ELSE floor + 1

\* a variant for comparison: no high-priority task earns nothing
calculate_efficiency_score_zero(total_tasks, completed_tasks, high_priority_total, high_priority_completed, stalled_tasks) ==
    LET t == IF total_tasks > 0 THEN total_tasks ELSE 1
        h == IF high_priority_total > 0 THEN high_priority_total ELSE 1
        stalled_penalty == Min(stalled_tasks * 5, 20)
        consistency_bonus ==
            IF completed_tasks > 0 /\ total_tasks > 0 THEN 10 ELSE 0
        p == 40 * completed_tasks * h + 30 * high_priority_completed * t
                 + (consistency_bonus - stalled_penalty) * t * h
    IN  PythonRound(Max(0, Min(100 * t * h, p)), t * h)

\* _calculate_efficiency_score over the counts of its five queries; the sum
\* of the four parts is the fraction p / (t * h)
calculate_efficiency_score(total_tasks, completed_tasks, high_priority_total, high_priority_completed, stalled_tasks) ==
    LET t == IF total_tasks > 0 THEN total_tasks ELSE 1
        h == IF high_priority_total > 0 THEN high_priority_total ELSE 1
        \* completion_score * t
        completion == IF total_tasks > 0 THEN 40 * completed_tasks ELSE 0
        \* priority_score * h
        priority == IF high_priority_total > 0
                    THEN 30 * high_priority_completed ELSE 30
        stalled_penalty == Min(stalled_tasks * 5, 20)
        consistency_bonus ==
            IF completed_tasks > 0 /\ total_tasks > 0 THEN 10 ELSE 0
        p == completion * h + priority * t
                 + (consistency_bonus - stalled_penalty) * t * h
    IN  PythonRound(Max(0, Min(100 * t * h, p)), t * h)

\* a variant for comparison: the score without its cap
calculate_bottleneck_score_uncapped(stuck_tasks, paused_types, low_completion_types) ==
    stuck_tasks * 15 + Sum(paused_types) * 5
        + Cardinality(low_completion_types) * 10

\* _calculate_bottleneck_score; stuck_tasks is the length of the list
calculate_bottleneck_score(stuck_tasks, paused_types, low_completion_types) ==
    Min(100, stuck_tasks * 15 + Sum(paused_types) * 5
                 + Cardinality(low_completion_types) * 10)

get_basic_statistics(n) ==
    [total_tasks |-> n.total, completed_tasks |-> n.completed,
     paused_tasks |-> Sum(n.paused_by_type),
     high |-> [total |-> n.high_total, completed |-> n.high_completed],
     type_distribution |-> n.type_counts]

\* the only week of the window
analyze_completion_rates(n) ==
    [weekly_trends |-> <<[total_tasks |-> n.total,
                          completed_tasks |-> n.completed]>>]

analyze_time_efficiency(n) ==
    [efficiency_score |->
         calculate_efficiency_score(n.total, n.completed, n.high_total,
                                    n.high_completed, n.stalled)]

\* completion_rate < 50 and total >= 3, for each type examined
low_completion_types(n) ==
    {ty \in TaskTypes :
        LET total == n.type_counts[ty][1]
            completed == n.type_counts[ty][2]
        IN  total > 0 /\ completed * 100 < 50 * total /\ total >= 3}

identify_bottlenecks(n) ==
    [stuck_high_priority_tasks |-> n.stuck,
     frequently_paused_types |-> n.paused_by_type,
     low_completion_rate_types |-> low_completion_types(n),
     bottleneck_score |->
         calculate_bottleneck_score(n.stuck, n.paused_by_type,
                                    low_completion_types(n))]

analyze_trends(n) ==
    [trend_direction |-> IF n.recent > n.previous THEN "improving"
                         ELSE IF n.recent < n.previous THEN "declining"
                         ELSE "stable"]

\* what query_openrouter does with the insights prompt: raise, return None,
\* or return a text
Completions ==
    {[kind |-> "raise", text |-> <<>>], [kind |-> "empty", text |-> <<>>]}
        \cup {[kind |-> "text", text |-> t] :
                 t \in {<<>>, <<"x">>, <<"{", "other">>, <<"{", "}">>,
                        ObjectText(insights_fields),
                        NestedText(MaxNesting)}}

\* a variant for comparison: an exception of the completion service or of
\* the parser leaves _generate_ai_insights
generate_ai_insights_uncaught(completion) ==
    IF completion.kind = "raise" THEN Raise("Exception")
    ELSE IF completion.kind = "empty" THEN Raise("AttributeError")
    ELSE parse_insights_response(completion.text)

\* _generate_ai_insights: the parser's payload, or the fallback for whatever
\* is raised (None has no find: AttributeError)
generate_ai_insights(completion) ==
    LET r == generate_ai_insights_uncaught(completion)
    IN  IF r.raised # "none" THEN Return(get_fallback_insights) ELSE r

\* the five sections computed from the store
NumericSections(n) ==
    [basic_statistics |-> get_basic_statistics(n),
     completion_analysis |-> analyze_completion_rates(n),
     efficiency_analysis |-> analyze_time_efficiency(n),
     bottlenecks |-> identify_bottlenecks(n),
     trends |-> analyze_trends(n)]

\* _get_fallback_analysis
get_fallback_analysis ==
    [basic_statistics |-> [total_tasks |-> 0], efficiency_analysis |->
         [efficiency_score |-> 50], bottlenecks |-> [bottleneck_score |-> 0]]

\* analyze_user_progress: the sections, then the insights; anything raised
\* on the way gives the failure report
analyze_user_progress(n, completion) ==
    LET ai_insights == generate_ai_insights(completion)
    IN  IF ai_insights.raised # "none"
        THEN [success |-> FALSE, sections |-> get_fallback_analysis,
              ai_insights |-> NoValue]
        ELSE [success |-> TRUE, sections |-> NumericSections(n),
              ai_insights |-> ai_insights.value]

analyze(completion) ==
    /\ last.op = "none"
    /\ last' = Called("analyze",
                      Return(analyze_user_progress(gen.data, completion)))
                   @@ [completion |-> completion]
    /\ UNCHANGED <<records, pomodoro, nextId, gen>>

InitProgress ==
    /\ records = <<>>
    /\ pomodoro = <<>>
    /\ nextId = 1
    /\ \E n \in CountInputs(ScenarioCounts) : gen = [GenIdle EXCEPT !.data = n]
    /\ last = Called("none", Return(NoValue))

NextProgress == \E completion \in Completions : analyze(completion)

SpecProgress == InitProgress /\ [][NextProgress]_vars

\* the completion service returned a text whose outermost braces hold an
\* object json.loads decodes
Decodable(completion) ==
    /\ completion.kind = "text"
    /\ find(completion.text, "{") # -1 /\ rfind(completion.text, "}") # -1
    /\ json_loads(Slice(completion.text, find(completion.text, "{"),
                        rfind(completion.text, "}") + 1)).kind = "object"

\* C16: analyze returns a successful report whose numeric sections (basic
\* statistics, completion analysis, efficiency, bottlenecks, trends) are the
\* ones computed from the store whatever the completion service does (raise,
\* return no text, return unparseable text, return valid JSON); only the
\* insights differ, and they are the static fallback whenever the service
\* gave nothing that decodes.
C16_NumericSectionsIndependent ==
    last.op = "analyze" =>
        /\ last.ok /\ last.value.success
        /\ last.value.sections = NumericSections(gen.data)
        /\ ~Decodable(last.completion) =>
               last.value.ai_insights = get_fallback_insights
        /\ \/ last.value.ai_insights = get_fallback_insights
           \/ last.value.ai_insights.static = "none"

\* the completion service raised during the analysis of the scenario's store
C16_Witness ==
    /\ last.op = "analyze" /\ last.completion.kind = "raise"
    /\ gen.data = ScenarioCounts
    /\ last.value.success
    /\ last.value.sections.basic_statistics.total_tasks = 10
    /\ last.value.ai_insights = get_fallback_insights

\* the efficiency score of the report returned
EfficiencyScore == last.value.sections.efficiency_analysis.efficiency_score

\* 2 * |a|
TwiceDistance(a) == IF a < 0 THEN -2 * a ELSE 2 * a

\* p / q is the clamped sum of the four parts of the score, the part of
\* the high-priority tasks being none_high when there is no such task
ClampedSum(n, none_high) ==
    LET t == IF n.total > 0 THEN n.total ELSE 1
        h == IF n.high_total > 0 THEN n.high_total ELSE 1
        bonus == IF n.total > 0 /\ n.completed > 0 THEN 10 ELSE 0
        high == IF n.high_total > 0 THEN 30 * n.high_completed ELSE none_high
        sum == (IF n.total > 0 THEN 40 * n.completed ELSE 0) * h + high * t
                   + (bonus - Min(5 * n.stalled, 20)) * t * h
    IN  [p |-> Max(0, Min(100 * t * h, sum)), q |-> t * h]

IsScenario(n) ==
    /\ n.total = 10 /\ n.completed = 6 /\ n.high_total = 2
    /\ n.high_completed = 2 /\ n.stalled = 1

\* C17 as claimed, the part of the high-priority tasks counting for nothing
\* when there is none, as the completion part does when there is no task: the
\* score is an integer nearest to the clamped sum
C17_EfficiencyAsClaimed ==
    last.op = "analyze" =>
        LET x == ClampedSum(gen.data, 0)
        IN  /\ TwiceDistance(EfficiencyScore * x.q - x.p) <= x.q
            /\ EfficiencyScore \in 0..100
            /\ IsScenario(gen.data) => EfficiencyScore = 59

\* C17: the efficiency score is the rounding, a tie going to the even
\* integer, of clamp[0,100](completed/total x 40 (0 when total = 0)
\* + highCompleted/highTotal x 30 (30 when highTotal = 0)
\* - min(5 x stalled, 20) + (10 if total > 0 and completed > 0, else 0)); it
\* is always within 0..100, and it is 59 for 10 tasks, 6 completed, 2 of high
\* priority both completed, and 1 stalled task.
C17_Efficiency ==
    last.op = "analyze" =>
        LET x == ClampedSum(gen.data, 30)
            twice == TwiceDistance(EfficiencyScore * x.q - x.p)
        IN  /\ twice <= x.q
            /\ twice = x.q => EfficiencyScore % 2 = 0
            /\ EfficiencyScore \in 0..100
            /\ IsScenario(gen.data) => EfficiencyScore = 59

\* the scenario's store has been analysed
C17_Witness ==
    /\ last.op = "analyze" /\ IsScenario(gen.data)
    /\ EfficiencyScore = 59

IdBits == 9
SuffixBits == 3

\* the width of the time prefix of the migration-safe variant, which with the
\* suffix fills an identifier: 32 = 48 - 16 in the code
TimestampBits == IdBits - SuffixBits

\* secrets.randbits(k)
randbits(k) == 0..(2^k - 1)

\* int(time.time() * 1000): the clock in milliseconds, beyond the width of
\* the prefix
Clock == 0..(2^(TimestampBits + 1) - 1)

\* a variant for comparison: the random bits as they come
generate_int_id_raw(bit_length, random_id) == random_id

\* generate_int_id(bit_length), random_id being the value randbits returned
generate_int_id(bit_length, random_id) ==
    LET max_value == 2^bit_length - 1
        min_value == 2^(bit_length - 1)
    IN  IF random_id < min_value THEN random_id + min_value
        ELSE IF random_id > max_value
             THEN min_value + (random_id % (max_value - min_value + 1))
             ELSE random_id

\* is_valid_id_format for an integer
is_valid_id_format(id_value) ==
    2^(IdBits - 1) <= id_value /\ id_value < 2^IdBits

\* generate_migration_safe_id; the suffix being narrower than the shift,
\* (timestamp_prefix << SuffixBits) | random_suffix is the sum
migration_safe_id(now, random_suffix) ==
    LET timestamp_prefix == now % 2^TimestampBits
        migration_id == timestamp_prefix * 2^SuffixBits + random_suffix
        min_safe_id == 2^(IdBits - 1)
    IN  IF migration_id < min_safe_id THEN migration_id + min_safe_id
        ELSE migration_id

\* the one call of the allocator: last keeps the identifier returned, the
\* random bits and the clock read
Allocated(op, id, random, now) ==
    /\ last.op = "none"
    /\ last' = Called(op, Return(id)) @@ [random |-> random, clock |-> now]
    /\ UNCHANGED <<records, pomodoro, nextId, gen>>

generate_record_id ==
    \E random_id \in randbits(IdBits) :
        Allocated("generate_record_id", generate_int_id(IdBits, random_id),
                  random_id, 0)

generate_user_id ==
    \E random_id \in randbits(IdBits) :
        Allocated("generate_user_id", generate_int_id(IdBits, random_id),
                  random_id, 0)

generate_migration_safe_id ==
    \E now \in Clock, random_suffix \in randbits(SuffixBits) :
        Allocated("generate_migration_safe_id",
                  migration_safe_id(now, random_suffix), random_suffix, now)

InitIds ==
    /\ records = <<>>
    /\ pomodoro = <<>>
    /\ nextId = 1
    /\ gen = GenIdle
    /\ last = Called("none", Return(0)) @@ [random |-> 0, clock |-> 0]

NextIds ==
    \/ generate_record_id
    \/ generate_user_id
    \/ generate_migration_safe_id

SpecIds == InitIds /\ [][NextIds]_vars

\* C19: every identifier returned by generate_record_id, by generate_user_id
\* and by the migration-safe variant lies in [2^(IdBits-1), 2^IdBits), that
\* is, is_valid_id_format is true for it, whatever the random source and the
\* clock give.
C19_IdsInRange ==
    last.op \in {"generate_record_id", "generate_user_id",
                 "generate_migration_safe_id"} =>
        /\ last.ok
        /\ is_valid_id_format(last.value)
        /\ last.value \in (2^(IdBits - 1))..(2^IdBits - 1)

\* the clock and the random source gave the smallest values, and the clock
\* has gone round the prefix once
C19_Witness ==
    /\ last.op = "generate_migration_safe_id"
    /\ last.clock = 2^TimestampBits /\ last.random = 0
    /\ last.value = 2^(IdBits - 1)

\* C20: create_record for a top-level record does not fail on the first
\* identifier collision: an accepted request whose insert hits a taken
\* identifier draws a new one and retries, up to MaxRetries attempts, and an
\* error is returned only after every attempt collided.
C20_CreateRetries ==
    [][(/\ last'.op = "create_record" /\ last'.pre = "none"
        /\ ~last'.ok /\ last'.attempts > 0)
           => last'.attempts = MaxRetries]_vars

\* C21: in every state reached by generate, add-single, the transition
\* routes and the deletion of one task, no two focus tasks of the same owner
\* have the same order_index.
C21_OrderIndexUnique ==
    \A i, j \in DOMAIN pomodoro :
        (i # j /\ pomodoro[i].user_id = pomodoro[j].user_id)
            => pomodoro[i].order_index # pomodoro[j].order_index

\* add-single has put its task in front of a task of a batch, which moved
\* from index 1 to index 2
C21_Witness ==
    /\ last.op = "add_single" /\ last.ok
    /\ \E i \in last.id, j \in DOMAIN pomodoro :
           /\ i # j /\ pomodoro[i].user_id = pomodoro[j].user_id
           /\ pomodoro[i].order_index = 0 /\ pomodoro[j].order_index = 2

(***************************************************************************)
(* Aggregate counts over the records                                       *)
(***************************************************************************)
\* subtask_count of Record.to_dict for the row parent_id: the loaded
\* subtasks whose status is active
subtask_count(store, parent_id) ==
    Cardinality({i \in DOMAIN store : /\ store[i].parent_id = parent_id
                                      /\ store[i].status = "active"})

\* The totals of _get_basic_statistics for a window holding every row: the
\* queries filter on the owner, the category and the creation time, and, for
\* the parts of the distributions, on the priority or on the type.  Every row
\* has the column default of task_type, work.
basic_statistics_totals(store, user_id) ==
    LET tasks == {i \in DOMAIN store : /\ store[i].user_id = user_id
                                       /\ store[i].category = "task"}
    IN  [total_tasks |-> Cardinality(tasks),
         priority_distribution |->
             [p \in {"high", "medium", "low"} |->
                 Cardinality({i \in tasks : store[i].priority = p})],
         type_distribution |->
             [ty \in TaskTypes |->
                 IF ty = "work" THEN Cardinality(tasks) ELSE 0]]

\* store without its deleted rows
NotDeleted(store) ==
    [i \in {j \in DOMAIN store : store[j].status # "deleted"} |-> store[i]]

\* C22: a record whose status is deleted is counted in no aggregate: neither
\* in the subtask_count reported for its parent, nor in the total of tasks
\* and the totals by priority and by type that analyze computes; each of
\* them is what it would be were the deleted rows absent.
C22_DeletedNotCounted ==
    /\ \A p \in DOMAIN records :
           subtask_count(records, p) = subtask_count(NotDeleted(records), p)
    /\ \A u \in Users :
           basic_statistics_totals(records, u)
               = basic_statistics_totals(NotDeleted(records), u)

\* C23: listing records with the status filter 'pending' returns only
\* records whose status is active or paused, for every caller and with or
\* without the children: no completed, cancelled, archived or deleted record
\* is listed.
C23_PendingIsActiveOrPaused ==
    \A a \in Accesses, inc \in BOOLEAN :
        \A i \in get_records(records, a, "pending", inc) :
            records[i].status \in {"active", "paused"}

(***************************************************************************)
(* POST /api/records/<record_id>/create-subtasks-from-ai one flush at a    *)
(* time.  gen holds the request being served: the suggestions not yet      *)
(* looked at, the rows flushed and not yet committed, the length of        *)
(* created_subtasks, and the id and the number of the attempt add_subtask  *)
(* is at.  One request is served at a time.                                *)
(***************************************************************************)
\* a loop that goes on after every collision
retries_left_always(attempt) == TRUE

\* "if attempt < max_retries - 1: continue", with attempts counted from 1
retries_left(attempt) == attempt < MaxRetries

\* what a finished step of the bulk route leaves in last
BulkStep(op, ok, created, attempts, fault) ==
    Last(op, ok, "task", {})
        @@ [created |-> created, attempts |-> attempts, fault |-> fault]

\* the route from its decorator to the head of the loop
bulk_begin(token, record_id, suggestions) ==
    LET access == get_user_for_record_access(token)
        record == ParentQuery(access, record_id)
        refused ==
            \/ ~token_required(token)
            \/ record = {}
            \/ ~is_task(records[record_id])
    IN  /\ gen.pc = "idle"
        /\ IF refused
           THEN /\ gen' = gen
                /\ last' = Last("create_from_ai", FALSE, ParentKind(record_id), {})
                               @@ [created |-> 0, attempts |-> 0, fault |-> FALSE]
           ELSE /\ gen' = [pc |-> "loop", record_id |-> record_id,
                           user_id |-> access.user_id,
                           suggestions |-> suggestions, pending |-> <<>>,
                           created |-> 0, id |-> 0, attempt |-> 0]
                /\ last' = last
        /\ UNCHANGED <<records, pomodoro, nextId>>

\* the head of the loop: the commit when no suggestion is left, the next
\* turn for a suggestion without a title, else the Record that add_subtask
\* constructs, with the id its constructor draws
bulk_next(id) ==
    /\ gen.pc = "loop"
    /\ IF gen.suggestions = <<>>
       THEN /\ records' = gen.pending @@ records
            /\ gen' = [pc |-> "idle"]
            /\ last' = BulkStep("create_from_ai", TRUE, gen.created, 0, FALSE)
       ELSE IF ~Head(gen.suggestions)
       THEN /\ gen' = [gen EXCEPT !.suggestions = Tail(@)]
            /\ UNCHANGED <<records, last>>
       ELSE /\ gen' = [gen EXCEPT !.pc = "flush", !.id = id, !.attempt = 1]
            /\ UNCHANGED <<records, last>>
    /\ UNCHANGED <<pomodoro, nextId>>

\* one turn of the loop of add_subtask: add and flush.  The flush collides
\* with a committed or a flushed id, or meets another error (fault), or
\* succeeds; every except branch rolls the session back, which discards the
\* rows flushed so far; an exception that leaves add_subtask reaches the
\* except branch of the route.  After a return the route sets the owner and
\* appends to created_subtasks.
add_subtask_flush(fault, id) ==
    LET collided == gen.id \in DOMAIN records \cup DOMAIN gen.pending
        row == [Record("task", gen.record_id, records[gen.record_id].user_id)
                    EXCEPT !.user_id = gen.user_id]
    IN  /\ gen.pc = "flush"
        /\ IF fault
           THEN /\ gen' = [pc |-> "idle"]
                /\ last' = BulkStep("create_from_ai", FALSE, 0, gen.attempt, TRUE)
           ELSE IF ~collided
           THEN /\ gen' = [gen EXCEPT !.pc = "loop",
                                      !.pending = (gen.id :> row) @@ @,
                                      !.created = @ + 1,
                                      !.suggestions = Tail(@)]
                /\ last' = BulkStep("add_subtask", TRUE, gen.created + 1,
                                    gen.attempt, FALSE)
           ELSE IF retries_left(gen.attempt)
           THEN /\ gen' = [gen EXCEPT !.pending = <<>>, !.id = id,
                                      !.attempt = @ + 1]
                /\ last' = last
           ELSE /\ gen' = [pc |-> "idle"]
                /\ last' = BulkStep("create_from_ai", FALSE, 0, gen.attempt, FALSE)
        /\ UNCHANGED <<records, pomodoro, nextId>>

InitBulk ==
    /\ records = FocusRecords
    /\ pomodoro = <<>>
    /\ nextId = 1
    /\ gen = [pc |-> "idle"]
    /\ last = Last("none", TRUE, "none", {})

NextBulk ==
    \/ \E token \in Tokens, record_id \in AddressedIds,
          suggestions \in SuggestionLists :
           bulk_begin(token, record_id, suggestions)
    \/ \E id \in RecordIds : bulk_next(id)
    \/ \E fault \in BOOLEAN, id \in RecordIds : add_subtask_flush(fault, id)

SpecBulk == InitBulk /\ [][NextBulk]_vars

\* C24: add_subtask flushes at most MaxRetries times; after a collision it
\* rolls back, draws a new id and tries again; it returns the child at the
\* first flush that succeeds; it raises after the third collision in a row,
\* and raises at once, without another attempt, on an error that is not a
\* collision.
C24_AddSubtaskRetries ==
    [][gen.pc = "flush" =>
          LET collided == gen.id \in DOMAIN records \cup DOMAIN gen.pending
          IN  /\ gen.attempt \in 1..MaxRetries
              /\ gen'.pc = "flush" =>
                     /\ collided /\ gen.attempt < MaxRetries
                     /\ gen'.attempt = gen.attempt + 1
                     /\ gen'.pending = <<>>
              /\ gen'.pc = "loop" =>
                     /\ ~collided
                     /\ gen.id \in DOMAIN gen'.pending
                     /\ last'.op = "add_subtask" /\ last'.attempts = gen.attempt
              /\ gen'.pc = "idle" =>
                     /\ ~last'.ok /\ last'.attempts = gen.attempt
                     /\ records' = records
                     /\ last'.fault \/ (collided /\ gen.attempt = MaxRetries)
              /\ (~collided /\ gen'.pc # "loop") => last'.fault
    ]_vars

\* add_subtask returned a child at its second flush, after one collision
C24_Witness ==
    /\ last.op = "add_subtask" /\ last.ok /\ last.attempts = 2
    /\ gen.pc = "loop" /\ gen.pending # <<>>

\* C30: the bulk creation reports what it persists: when its commit is
\* done, the parent has as many more children stored as created_subtasks
\* has entries, a collision and its retry part-way through included.
C30_BulkReportsWhatItPersists ==
    [][(gen.pc = "loop" /\ last'.op = "create_from_ai" /\ last'.ok) =>
          Cardinality(Children(records', gen.record_id))
              = Cardinality(Children(records, gen.record_id)) + last'.created
    ]_vars

\* C25: a complete request that carries focus_minutes m and succeeds adds
\* exactly m to the total_focus_time of the Focus-Task; DefaultFocusMinutes
\* is added only when the request carries none.
C25_CompleteAddsSuppliedMinutes ==
    [][\A user_id \in Users, task_id \in DOMAIN pomodoro, m \in FocusMinutes :
          (complete_pomodoro_task(user_id, task_id, m) /\ last'.ok) =>
              pomodoro'[task_id].total_focus_time
                  = pomodoro[task_id].total_focus_time + m
    ]_vars

\* C28: a Focus-Task has a completion time only while its status is
\* completed: in every state a pending, active or skipped Focus-Task has
\* completed_at empty, after a skip of a completed task too.
C28_CompletedAtOnlyWhenCompleted ==
    \A i \in DOMAIN pomodoro :
        pomodoro[i].status \in {"pending", "active", "skipped"}
            => pomodoro[i].completed_at = "None"

(***************************************************************************)
(* add_single_task_to_pomodoro served by two workers at once, each in its  *)
(* own session and transaction.  A worker reads the active task, then      *)
(* skips it, flushes and starts its own row and updates the order_index of *)
(* the rows its statement sees, then commits.  A statement sees the rows   *)
(* committed when it runs and the session's own; no row is locked between  *)
(* the read and the commit.  A database that lets one writer in at a time  *)
(* runs the last two steps without another worker's step between them.     *)
(* gen[w] is the request worker w is serving.                              *)
(***************************************************************************)
MaxRaceId == 3

Workers == {"w1", "w2"}

\* steps 1 to 3 up to the query for the active task
add_single_read(w, user_id, record_id) ==
    /\ gen[w].pc = "idle"
    /\ nextId <= MaxRaceId
    /\ IF FindRecord(record_id, user_id) = {}
       THEN /\ gen' = gen
            /\ last' = Last("add_single", FALSE, "missing", {})
       ELSE /\ \E active_task \in ActiveFirst(pomodoro, user_id) :
                 gen' = [gen EXCEPT ![w] = [pc |-> "read", user_id |-> user_id,
                                            record_id |-> record_id,
                                            active_task |-> active_task,
                                            id |-> 0, others |-> {}]]
            /\ last' = last
    /\ UNCHANGED <<records, pomodoro, nextId>>

\* steps 3 to 6 within the transaction: the skip, the flush, which takes the
\* next id of the sequence, the start, and the UPDATE of the user's other
\* rows, which are the committed ones
add_single_write(w) ==
    /\ gen[w].pc = "read"
    /\ gen' = [gen EXCEPT ![w].pc = "written", ![w].id = nextId,
                          ![w].others = UserTasks(pomodoro, gen[w].user_id)]
    /\ nextId' = nextId + 1
    /\ UNCHANGED <<records, pomodoro, last>>

\* the commit: the skipped status, the new row and the order_index + 1 of
\* the rows the UPDATE found reach the table
add_single_commit(w) ==
    LET g == gen[w]
        created == PomodoroTask(g.user_id,
                       calculate_priority_score(records[g.record_id].priority),
                       1, 0)
        started == start_pomodoro(created)[2]
        skipped == SkipActive(pomodoro, g.active_task)
        shifted == [i \in DOMAIN skipped |->
                       IF i \in g.others
                       THEN [skipped[i] EXCEPT !.order_index = @ + 1]
                       ELSE skipped[i]]
    IN  /\ g.pc = "written"
        /\ pomodoro' = (g.id :> started) @@ shifted
        /\ gen' = [gen EXCEPT ![w] = [pc |-> "idle"]]
        /\ last' = Last("add_single", TRUE,
                        IF g.active_task = {} THEN "none" ELSE "active", {g.id})
        /\ UNCHANGED <<records, nextId>>

InitRace ==
    /\ records = FocusRecords
    /\ pomodoro = <<>>
    /\ nextId = 1
    /\ gen = [w \in Workers |-> [pc |-> "idle"]]
    /\ last = Last("none", TRUE, "none", {})

NextRace ==
    \/ \E w \in Workers, user_id \in Users, record_id \in DOMAIN FocusRecords :
           add_single_read(w, user_id, record_id)
    \/ \E w \in Workers : add_single_write(w)
    \/ \E w \in Workers : add_single_commit(w)

SpecRace == InitRace /\ [][NextRace]_vars

\* C27: for add-single calls of one owner whose steps interleave, every
\* state still has at most one active Focus-Task of the owner and no two
\* Focus-Tasks of the owner with the same order_index.
C27_InterleavedAddSingle ==
    \A user_id \in Users :
        /\ Cardinality({i \in UserTasks(pomodoro, user_id) :
                            pomodoro[i].status = "active"}) <= 1
        /\ \A i, j \in UserTasks(pomodoro, user_id) :
               i # j => pomodoro[i].order_index # pomodoro[j].order_index

(***************************************************************************)
(* The stalled tasks of the efficiency section, over rows that carry their *)
(* times.  created and updated are the ages of created_at and updated_at   *)
(* at the time of the request, in half days: a row is never updated before *)
(* it is created.                                                          *)
(***************************************************************************)
MaxRows == 2

\* default of the days parameter of analyze_user_progress
AnalysisDays == 30

\* the days after which a task counts as stalled
StalledDays == 7

\* timedelta.days of an age
Days(age) == age \div 2

\* the rows a store may hold
TimedRows ==
    {[user_id |-> u, category |-> c, status |-> st, priority |-> "medium",
      progress |-> p, created |-> cr, updated |-> up] :
        u \in Users, c \in {"task", "note"}, st \in {"active", "completed"},
        p \in {0, 50, 100}, cr \in {2, 15, 20, 80}, up \in {2, 15, 20, 80}}

\* the stalled_tasks list of _analyze_time_efficiency: the ids listed
stalled_tasks(store, user_id, days) ==
    LET tasks_with_progress ==
            {i \in DOMAIN store : /\ store[i].user_id = user_id
                                  /\ store[i].category = "task"
                                  /\ store[i].created <= 2 * days
                                  /\ store[i].progress > 0}
    IN  {i \in tasks_with_progress : /\ Days(store[i].created) > StalledDays
                                     /\ store[i].progress < 100
                                     /\ store[i].status = "active"}

\* the stalled_tasks count of _calculate_efficiency_score
stalled_for_penalty(store, user_id) ==
    Cardinality({i \in DOMAIN store : /\ store[i].user_id = user_id
                                      /\ store[i].category = "task"
                                      /\ store[i].status = "active"
                                      /\ store[i].created > 2 * StalledDays
                                      /\ store[i].progress < 100})

\* _analyze_time_efficiency over the rows
efficiency_analysis(store, user_id, days) ==
    LET window == {i \in DOMAIN store : /\ store[i].user_id = user_id
                                        /\ store[i].category = "task"
                                        /\ store[i].created <= 2 * days}
        completed == {i \in window : store[i].status = "completed"}
        high == {i \in window : store[i].priority = "high"}
    IN  [efficiency_score |->
             calculate_efficiency_score(Cardinality(window),
                                        Cardinality(completed),
                                        Cardinality(high),
                                        Cardinality(high \cap completed),
                                        stalled_for_penalty(store, user_id)),
         stalled_tasks |-> stalled_tasks(store, user_id, days),
         stalled_tasks_count |->
             Cardinality(stalled_tasks(store, user_id, days))]

analyze_efficiency(user_id) ==
    /\ last.op = "none"
    /\ last' = Called("analyze_efficiency",
                      Return(efficiency_analysis(records, user_id, AnalysisDays)))
                   @@ [user_id |-> user_id]
    /\ UNCHANGED <<records, pomodoro, nextId, gen>>

InitStalled ==
    /\ \E k \in 0..MaxRows :
           \E store \in [1..k -> {r \in TimedRows : r.updated <= r.created}] :
               records = store
    /\ pomodoro = <<>>
    /\ nextId = 1
    /\ gen = GenIdle
    /\ last = Called("none", Return(NoValue))

NextStalled == \E user_id \in Users : analyze_efficiency(user_id)

SpecStalled == InitStalled /\ [][NextStalled]_vars

\* C26: the stalled-tasks list of analyze holds exactly the owner's task
\* records that are active, have progress below 100 and were last updated
\* more than 7 days ago: the age is that of the last update, not of the
\* creation, and tasks with progress 0 are listed.
C26_StalledList ==
    last.op = "analyze_efficiency" =>
        last.value.stalled_tasks
            = {i \in DOMAIN records : /\ records[i].user_id = last.user_id
                                      /\ records[i].category = "task"
                                      /\ records[i].status = "active"
                                      /\ records[i].progress < 100
                                      /\ records[i].updated > 2 * StalledDays}

\* C29: within one report, the number of stalled tasks the penalty of the
\* efficiency score is computed from equals the stalled_tasks_count of the
\* same efficiency section, for every set of records.
C29_PenaltyCountIsListCount ==
    last.op = "analyze_efficiency" =>
        stalled_for_penalty(records, last.user_id)
            = last.value.stalled_tasks_count

====
